---- MODULE Spec2Model ----
(***************************************************************************)
(* Verification model of the parameter-affine-relaxation repository:       *)
(* quaternion kinematics (par/quat.py), the quadrotor vector fields and    *)
(* their integration (par/models.py, par/dynamics/models.py), the NMPC     *)
(* problem builder (par/mpc.py) and the named-configuration helpers        *)
(* (par/config_utils.py).                                                  *)
(*                                                                         *)
(* Numbers are exact rationals <<n, d>> (d > 0, lowest terms), so that the *)
(* algebraic identities the code relies on are decided exactly and not up  *)
(* to floating-point tolerance.                                            *)
(***************************************************************************)
EXTENDS Integers, Sequences, FiniteSets, TLC

VARIABLES
    quat_q,        \* par/quat.py: the quaternion handed to Q
    quat_out,      \* par/quat.py: the matrix Q returned (<<>> before the call)
    quat_pc,       \* "input" before the call of Q, "done" after it
    aff_x,         \* par/models.py: state x handed to both vector fields
    aff_u,         \* input u
    aff_w,         \* process noise w
    aff_params,    \* the ModelParameters instance both models are built from
    aff_nl,        \* NonlinearQuadrotorModel.f(x, u, w, params.vector)
    aff_af,        \* ParameterAffineQuadrotorModel.f(x, u, w, params.affine_vector)
    step_model,    \* the DynamicsModel instance stepped (par/models.py or par/dynamics/models.py)
    step_dt,       \* F's arguments: dt, x, u, w, theta
    step_x,
    step_u,
    step_w,
    step_theta,
    step_out,      \* the state F returned (None before the call)
    step_u_type,   \* the Python type of u: np.ndarray, cs.DM or cs.SX
    step_op,       \* the method called: F, f or F_euler
    mpc_N,         \* par/mpc.py NMPC: self._N
    mpc_model,     \* self._model: its dimensions nx, nu, ntheta, nz0 and kind
    mpc_nlp,       \* the problem {"f", "x", "p", "g"} compiled into self._solver
    mpc_lbg,       \* self._lbg
    mpc_ubg,       \* self._ubg
    mpc_sol,       \* self._sol
    mpc_status,     \* the return status the solver reported to the last call
    mpc_op,        \* the last method called on the instance
    mpc_args,      \* the arguments of the last solve call
    mpc_call,      \* the arguments the solver was last invoked with
    mpc_invoked,   \* how often the last call invoked the solver
    mpc_raised,    \* the exception the last call raised (None: it returned)
    mpc_ret,       \* the value the last call returned
    mpc_theta,     \* NMPC._theta: the parameters object it refers to
    mpc_us_guess,  \* NMPC._us_guess
    mdl_parameters, \* the model's _parameters: the object it refers to
    mdl_f,         \* the model's compiled vector field _f
    cfg_config,    \* par/config_utils.py: the configuration passed in
    cfg_id,        \* the block name passed in
    cfg_vector,    \* the vector passed to get_subvector
    cfg_op,        \* the function last called
    cfg_out,       \* how it ended: the value returned or the exception raised
    koop_Hs,       \* par/koopman/dynamics.py: the caller's list Hs
    koop_J,        \* the inertia matrix J passed in
    koop_Hs0,      \* the list Hs as it was before the first call
    koop_B,        \* the matrix the last call returned (None before)
    koop_calls     \* the calls of get_attitude_input_matrix made so far

quat_vars == <<quat_q, quat_out, quat_pc>>
aff_vars == <<aff_x, aff_u, aff_w, aff_params, aff_nl, aff_af>>
step_vars == <<step_model, step_dt, step_x, step_u, step_w, step_theta, step_out,
               step_u_type, step_op>>
mpc_vars == <<mpc_N, mpc_model, mpc_nlp, mpc_lbg, mpc_ubg, mpc_sol, mpc_status,
              mpc_op, mpc_args, mpc_call, mpc_invoked, mpc_raised, mpc_ret,
              mpc_theta, mpc_us_guess, mdl_parameters, mdl_f>>
cfg_vars == <<cfg_config, cfg_id, cfg_vector, cfg_op, cfg_out>>
koop_vars == <<koop_Hs, koop_J, koop_Hs0, koop_B, koop_calls>>
vars == <<quat_vars, aff_vars, step_vars, mpc_vars, cfg_vars, koop_vars>>

\* is_none: None is modelled as the empty tuple
None == <<>>
is_none(v) == v = None

(* Each specification below exercises one component; the variables of the *)
(* other components stay idle.                                            *)
QuatIdle ==
    /\ quat_q = None
    /\ quat_out = None
    /\ quat_pc = "idle"

AffIdle ==
    /\ aff_x = None
    /\ aff_u = None
    /\ aff_w = None
    /\ aff_params = None
    /\ aff_nl = None
    /\ aff_af = None

StepIdle ==
    /\ step_model = None
    /\ step_dt = None
    /\ step_x = None
    /\ step_u = None
    /\ step_w = None
    /\ step_theta = None
    /\ step_out = None
    /\ step_u_type = None
    /\ step_op = "idle"

MpcIdle ==
    /\ mpc_N = 0
    /\ mpc_model = None
    /\ mpc_nlp = None
    /\ mpc_lbg = None
    /\ mpc_ubg = None
    /\ mpc_sol = None
    /\ mpc_status = None
    /\ mpc_op = "idle"
    /\ mpc_args = None
    /\ mpc_call = None
    /\ mpc_invoked = 0
    /\ mpc_raised = None
    /\ mpc_ret = None
    /\ mpc_theta = None
    /\ mpc_us_guess = None
    /\ mdl_parameters = None
    /\ mdl_f = None

ConfigIdle ==
    /\ cfg_config = None
    /\ cfg_id = None
    /\ cfg_vector = None
    /\ cfg_op = "idle"
    /\ cfg_out = None

KoopIdle ==
    /\ koop_Hs = None
    /\ koop_J = None
    /\ koop_Hs0 = None
    /\ koop_B = None
    /\ koop_calls = 0

----------------------------------------------------------------------------
(* Exact rational arithmetic (the numeric type of numpy / casadi values). *)

Abs(n) == IF n < 0 THEN -n ELSE n

RECURSIVE GCD(_, _)
GCD(a, b) == IF b = 0 THEN a ELSE GCD(b, a % b)

Rat(n, d) ==
    LET g == GCD(Abs(n), Abs(d))
        s == IF d < 0 THEN -1 ELSE 1
    IN  <<s * (n \div g), s * (d \div g)>>

RInt(n) == <<n, 1>>
RZero == RInt(0)
ROne == RInt(1)
RNeg(a) == <<-a[1], a[2]>>
RAdd(a, b) ==
    IF a[2] = 1 /\ b[2] = 1 THEN <<a[1] + b[1], 1>>
    ELSE LET g == GCD(a[2], b[2])
         IN  Rat(a[1] * (b[2] \div g) + b[1] * (a[2] \div g), (a[2] \div g) * b[2])
RSub(a, b) == RAdd(a, RNeg(b))
RMul(a, b) ==
    IF a[1] = 0 \/ b[1] = 0 THEN RZero
    ELSE IF a[2] = 1 /\ b[2] = 1 THEN <<a[1] * b[1], 1>>
    ELSE LET g1 == GCD(Abs(a[1]), b[2])
             g2 == GCD(Abs(b[1]), a[2])
         IN  <<(a[1] \div g1) * (b[1] \div g2), (a[2] \div g2) * (b[2] \div g1)>>
RInv(a) == Rat(a[2], a[1])
RDiv(a, b) == RMul(a, RInv(b))

----------------------------------------------------------------------------
(* Vectors are sequences of rationals, matrices sequences of rows.         *)

\* np.array / cs.SX: an array holds its entries (a tuple, not a lazy function)
array(f) == f \o <<>>

RECURSIVE SumRange(_, _, _)
SumRange(v, lo, hi) ==
    IF lo > hi THEN RZero
    ELSE IF lo = hi THEN v[lo]
    ELSE LET mid == (lo + hi) \div 2
         IN  RAdd(SumRange(v, lo, mid), SumRange(v, mid + 1, hi))

VSum(v) == SumRange(v, 1, Len(v))

VAdd(a, b) == array([i \in 1..Len(a) |-> RAdd(a[i], b[i])])
VSub(a, b) == array([i \in 1..Len(a) |-> RSub(a[i], b[i])])
VNeg(a) == array([i \in 1..Len(a) |-> RNeg(a[i])])
VScale(c, a) == array([i \in 1..Len(a) |-> RMul(c, a[i])])
VMul(a, b) == array([i \in 1..Len(a) |-> RMul(a[i], b[i])])
Dot(a, b) == VSum(VMul(a, b))
VZeros(n) == array([i \in 1..n |-> RZero])

NRows(A) == Len(A)
NCols(A) == IF A = <<>> THEN 0 ELSE Len(A[1])
MColumn(A, j) == array([i \in 1..NRows(A) |-> A[i][j]])
Transpose(A) == array([j \in 1..NCols(A) |-> MColumn(A, j)])
MatMul(A, B) ==
    array([i \in 1..NRows(A) |-> [j \in 1..NCols(B) |-> Dot(A[i], MColumn(B, j))]])
MatVec(A, v) == array([i \in 1..NRows(A) |-> Dot(A[i], v)])
MAdd(A, B) == array([i \in 1..NRows(A) |-> VAdd(A[i], B[i])])
MScale(c, A) == array([i \in 1..NRows(A) |-> VScale(c, A[i])])
MNeg(A) == array([i \in 1..NRows(A) |-> VNeg(A[i])])
Eye(n) == array([i \in 1..n |-> [j \in 1..n |-> IF i = j THEN ROne ELSE RZero]])
MZeros(r, c) == array([i \in 1..r |-> VZeros(c)])
Diag(v) ==
    array([i \in 1..Len(v) |-> [j \in 1..Len(v) |-> IF i = j THEN v[i] ELSE RZero]])
Row(v) == <<v>>
Col(v) == array([i \in 1..Len(v) |-> <<v[i]>>])
vertcat(A, B) == A \o B
horzcat(A, B) == array([i \in 1..NRows(A) |-> A[i] \o B[i]])

\* casadi.skew: the cross-product matrix of a 3-vector
skew(a) ==
    << <<RZero, RNeg(a[3]), a[2]>>,
       <<a[3], RZero, RNeg(a[1])>>,
       <<RNeg(a[2]), a[1], RZero>> >>

\* casadi.cross
cross(a, b) ==
    << RSub(RMul(a[2], b[3]), RMul(a[3], b[2])),
       RSub(RMul(a[3], b[1]), RMul(a[1], b[3])),
       RSub(RMul(a[1], b[2]), RMul(a[2], b[1])) >>

Det3(A) ==
    RAdd(RSub(RMul(A[1][1], RSub(RMul(A[2][2], A[3][3]), RMul(A[2][3], A[3][2]))),
              RMul(A[1][2], RSub(RMul(A[2][1], A[3][3]), RMul(A[2][3], A[3][1])))),
         RMul(A[1][3], RSub(RMul(A[2][1], A[3][2]), RMul(A[2][2], A[3][1]))))

----------------------------------------------------------------------------
(* par/quat.py *)

H == vertcat(MZeros(1, 3), Eye(3))

L_or_R(q, is_L) ==
    LET scalar == q[1]
        vector == SubSeq(q, 2, 4)
        sign == IF ~is_L THEN RInt(-1) ELSE RInt(1)
    IN  vertcat(
            horzcat(Row(<<scalar>>), Row(VNeg(vector))),
            horzcat(Col(vector),
                    MAdd(MScale(scalar, Eye(3)), MScale(sign, skew(vector)))))

L(q) == L_or_R(q, TRUE)

R(q) == L_or_R(q, FALSE)

G(q) == MatMul(L(q), H)

Q(q) == MatMul(MatMul(MatMul(Transpose(H), R(q)), L(q)), H)


----------------------------------------------------------------------------
(* par/models.py: ModelParameters and the two quadrotor vector fields.     *)

nx == 13
nu == 4
nw == 13

\* par.constants.GRAVITY, standard gravity in m/s^2
GRAVITY == Rat(981, 100)

\* par/utils/math.py alternating_ones: ones with every even 0-based index -1
alternating_ones(n) == array([i \in 1..n |-> IF i % 2 = 1 THEN RInt(-1) ELSE ROne])

VDiv(a, c) == array([i \in 1..Len(a) |-> RDiv(a[i], c)])

\* cs.inv of a 3x3 matrix: adjugate over determinant
inv(A) ==
    LET cof(i, j) ==
            LET r1 == (i % 3) + 1
                r2 == ((i + 1) % 3) + 1
                c1 == (j % 3) + 1
                c2 == ((j + 1) % 3) + 1
            IN  RSub(RMul(A[r1][c1], A[r2][c2]), RMul(A[r1][c2], A[r2][c1]))
        det == Det3(A)
    IN  array([i \in 1..3 |-> [j \in 1..3 |-> RDiv(cof(j, i), det)]])

\* ModelParameters.vector: the members stacked in PARAMETER_CONFIG order
vector(params) ==
    <<params.m>> \o params.a \o <<params.Ixx, params.Iyy, params.Izz>>
        \o params.k \o params.c \o params.r \o params.s

\* affine_vector with the first inertia-difference ratio with its
\* operands exchanged, (Iyy - Izz) / Ixx.
affine_vector_inertia_swapped(params) ==
    VDiv(params.a, params.m)
        \o VDiv(params.k, params.m)
        \o VDiv(VMul(params.k, params.s), params.Ixx)
        \o VDiv(VMul(params.k, params.r), params.Iyy)
        \o VDiv(params.c, params.Izz)
        \o << RDiv(RSub(params.Iyy, params.Izz), params.Ixx),
              RDiv(RSub(params.Ixx, params.Izz), params.Iyy),
              RDiv(RSub(params.Iyy, params.Ixx), params.Izz) >>

affine_vector(params) ==
    VDiv(params.a, params.m)
        \o VDiv(params.k, params.m)
        \o VDiv(VMul(params.k, params.s), params.Ixx)
        \o VDiv(VMul(params.k, params.r), params.Iyy)
        \o VDiv(params.c, params.Izz)
        \o << RDiv(RSub(params.Izz, params.Iyy), params.Ixx),
              RDiv(RSub(params.Ixx, params.Izz), params.Iyy),
              RDiv(RSub(params.Iyy, params.Ixx), params.Izz) >>

\* NonlinearQuadrotorModel._set_model: the compiled function [x, u, w, theta] -> xdot
f_NonlinearQuadrotorModel(x, u, w, theta) ==
    LET q == SubSeq(x, 4, 7)
        vB == SubSeq(x, 8, 10)
        wB == SubSeq(x, 11, 13)
        m == theta[1]
        a == SubSeq(theta, 2, 4)
        Ixx == theta[5]
        Iyy == theta[6]
        Izz == theta[7]
        k == SubSeq(theta, 8, 7 + nu)
        c == SubSeq(theta, 8 + nu, 7 + 2 * nu)
        r == SubSeq(theta, 8 + 2 * nu, 7 + 3 * nu)
        s == SubSeq(theta, 8 + 3 * nu, 7 + 4 * nu)
        g == <<RZero, RZero, RNeg(GRAVITY)>>
        Am == Diag(a)
        Jm == Diag(<<Ixx, Iyy, Izz>>)
        Km == vertcat(MZeros(2, nu), Row(k))
        Bm == vertcat(vertcat(Row(VMul(k, s)), Row(VNeg(VMul(k, r)))),
                      Row(VMul(alternating_ones(nu), c)))
    IN  VAdd(w,
             MatVec(Q(q), vB)
             \o VScale(Rat(1, 2), MatVec(G(q), wB))
             \o VSub(VAdd(MatVec(Transpose(Q(q)), g),
                          VDiv(VSub(MatVec(Km, u), MatVec(Am, vB)), m)),
                     cross(wB, vB))
             \o MatVec(inv(Jm), VSub(MatVec(Bm, u), cross(wB, MatVec(Jm, wB)))))

\* ParameterAffineQuadrotorModel._set_affine_model: xdot = w + F + G @ theta
f_ParameterAffineQuadrotorModel(x, u, w, theta) ==
    LET q == SubSeq(x, 4, 7)
        vB == SubSeq(x, 8, 10)
        wB == SubSeq(x, 11, 13)
        g == <<RZero, RZero, RNeg(GRAVITY)>>
        Fm == MatVec(Q(q), vB)
              \o VScale(Rat(1, 2), MatVec(G(q), wB))
              \o VSub(MatVec(Transpose(Q(q)), g), cross(wB, vB))
              \o VZeros(3)
        Km == vertcat(MZeros(2, nu), Row(u))
        Am == Diag(vB)
        Cm == vertcat(vertcat(
                  horzcat(Row(u), MZeros(1, 2 * nu)),
                  horzcat(horzcat(MZeros(1, nu), Row(VNeg(u))), MZeros(1, nu))),
                  horzcat(MZeros(1, 2 * nu), Row(VMul(alternating_ones(nu), u))))
        Im == Diag(<<RMul(wB[2], wB[3]), RMul(wB[1], wB[3]), RMul(wB[1], wB[2])>>)
        Gm == vertcat(vertcat(
                  MZeros(7, 6 + 4 * nu),
                  horzcat(horzcat(MNeg(Am), Km), MZeros(3, 3 + 3 * nu))),
                  horzcat(horzcat(MZeros(3, 3 + nu), Cm), MNeg(Im)))
    IN  VAdd(VAdd(w, Fm), MatVec(Gm, theta))

\* DynamicsModel.get_default_parameter_vector, as overridden by the two models
get_default_parameter_vector(self) ==
    IF self.type = "NonlinearQuadrotorModel"
    THEN vector(self.parameters)
    ELSE affine_vector(self.parameters)

\* self._f: the function compiled by the model's constructor
compiled_f(self, x, u, w, theta) ==
    IF self.type = "NonlinearQuadrotorModel"
    THEN f_NonlinearQuadrotorModel(x, u, w, theta)
    ELSE f_ParameterAffineQuadrotorModel(x, u, w, theta)

\* par/models.py DynamicsModel.f
models_f(self, x, u, w, theta) ==
    LET theta1 == IF is_none(theta) THEN get_default_parameter_vector(self) ELSE theta
        w1 == IF is_none(w) THEN VZeros(nw) ELSE w
    IN  compiled_f(self, x, u, w1, theta1)

NonlinearQuadrotorModel(parameters) ==
    [type |-> "NonlinearQuadrotorModel", parameters |-> parameters]

ParameterAffineQuadrotorModel(parameters) ==
    [type |-> "ParameterAffineQuadrotorModel", parameters |-> parameters]

----------------------------------------------------------------------------
(* Evaluation points of the two vector fields: each block of x, u and w is *)
(* zero or a fixed direction scaled by 1..AffScale, the attitude is one of *)
(* three quaternions, and the parameters one of three sets with nonzero m, *)
(* Ixx, Iyy, Izz.                                                          *)

AffScale == 2

Ints(v) == array([i \in 1..Len(v) |-> RInt(v[i])])
AffScales == {RInt(c) : c \in 1..AffScale}
OnOff(v) == {VZeros(Len(v)), v}

AffStates ==
    UNION { { p \o q \o vB \o wB :
              p \in OnOff(VScale(c, Ints(<<1, -1, 2>>))),
              q \in { Ints(<<1, 0, 0, 0>>),
                      <<Rat(1, 2), Rat(1, 2), Rat(-1, 2), Rat(1, 2)>>,
                      Ints(<<0, 1, 2, 0>>) },
              vB \in OnOff(VScale(c, Ints(<<1, -2, 3>>))),
              wB \in OnOff(VScale(c, Ints(<<1, 2, -1>>))) } : c \in AffScales }

AffInputs ==
    UNION { OnOff(VScale(c, <<Rat(1, 2), ROne, Rat(3, 2), Rat(1, 3)>>)) : c \in AffScales }

AffNoises == {None, Ints(<<1, -1, 2, 0, 1, 0, -2, 3, 1, -1, 2, 0, 1>>)}

AffParameters ==
    { [m |-> ROne, a |-> Ints(<<0, 0, 0>>),
       Ixx |-> ROne, Iyy |-> ROne, Izz |-> ROne,
       k |-> Ints(<<1, 1, 1, 1>>), c |-> Ints(<<1, 1, 1, 1>>),
       r |-> Ints(<<1, 1, -1, -1>>), s |-> Ints(<<1, -1, -1, 1>>)],
      [m |-> RInt(2), a |-> Ints(<<1, 2, 3>>),
       Ixx |-> RInt(2), Iyy |-> RInt(3), Izz |-> RInt(5),
       k |-> Ints(<<1, 2, 1, 3>>), c |-> Ints(<<1, 1, 2, 1>>),
       r |-> Ints(<<2, 3, -2, -3>>), s |-> Ints(<<1, -1, -2, 2>>)],
      [m |-> Rat(27, 1000), a |-> <<Rat(1, 10), Rat(1, 10), Rat(1, 5)>>,
       Ixx |-> Rat(3, 200), Iyy |-> Rat(7, 400), Izz |-> Rat(1, 40),
       k |-> Ints(<<1, 1, 1, 1>>),
       c |-> <<Rat(3, 500), Rat(3, 500), Rat(3, 500), Rat(3, 500)>>,
       r |-> <<Rat(7, 250), Rat(7, 250), Rat(-7, 250), Rat(-7, 250)>>,
       s |-> <<Rat(7, 250), Rat(-7, 250), Rat(-7, 250), Rat(7, 250)>>] }

InitAffine ==
    /\ aff_x \in AffStates
    /\ aff_u \in AffInputs
    /\ aff_w \in AffNoises
    /\ aff_params \in AffParameters
    /\ aff_nl = None
    /\ aff_af = None
    /\ QuatIdle
    /\ StepIdle
    /\ MpcIdle
    /\ ConfigIdle
    /\ KoopIdle

EvalNonlinear ==
    /\ aff_x # None
    /\ aff_nl = None
    /\ aff_nl' = models_f(NonlinearQuadrotorModel(aff_params),
                          aff_x, aff_u, aff_w, vector(aff_params))
    /\ UNCHANGED <<aff_x, aff_u, aff_w, aff_params, aff_af, quat_vars, step_vars, mpc_vars, cfg_vars, koop_vars>>

EvalAffine ==
    /\ aff_nl # None
    /\ aff_af = None
    /\ aff_af' = models_f(ParameterAffineQuadrotorModel(aff_params),
                          aff_x, aff_u, aff_w, affine_vector(aff_params))
    /\ UNCHANGED <<aff_x, aff_u, aff_w, aff_params, aff_nl, quat_vars, step_vars, mpc_vars, cfg_vars, koop_vars>>

NextAffine == EvalNonlinear \/ EvalAffine

SpecAffine == InitAffine /\ [][NextAffine]_vars

\* C3: with the affine vector derived from the same physical parameters, the
\* parameter-affine model's vector field equals the nonlinear model's in each
\* of the 13 components, and the affine vector has as many entries (6 + 4 nu)
\* as the matrix G has columns.
C3_AffineEqualsNonlinear ==
    (aff_nl # None /\ aff_af # None) =>
        /\ Len(aff_nl) = nx
        /\ aff_af = aff_nl
        /\ Len(affine_vector(aff_params)) = 6 + 4 * nu

\* C3 witness: both fields evaluated at a point where every parameter-coupled
\* term is active (moving, rotating, actuated, with drag and unequal inertias).
C3_Witness ==
    /\ aff_nl # None
    /\ aff_af # None
    /\ aff_af = aff_nl
    /\ aff_u # VZeros(nu)
    /\ SubSeq(aff_x, 8, 10) # VZeros(3)
    /\ SubSeq(aff_x, 11, 13) # VZeros(3)
    /\ aff_params.a # VZeros(3)
    /\ aff_params.Ixx # aff_params.Iyy

----------------------------------------------------------------------------
(* Integration.  A state returned by an integration step is a record       *)
(* [x, attitude_div_sq]: the attitude block x[3:7] is to be read divided   *)
(* by the square root of attitude_div_sq, which keeps the division by a    *)
(* Euclidean norm exact (attitude_div_sq = 1: nothing was divided).        *)

attitude(x) == SubSeq(x, 4, 7)

\* cs.norm_2(v), squared
norm_2_sq(v) == Dot(v, v)

\* the squared norm of the attitude block of a returned state
attitude_norm_sq(xf) == RDiv(norm_2_sq(attitude(xf.x)), xf.attitude_div_sq)

\* par/models.py DynamicsModel.rk4, with f = self.f
models_rk4(self, dt, x, u, w, theta) ==
    LET k1 == models_f(self, x, u, w, theta)
        k2 == models_f(self, VAdd(x, VScale(RDiv(dt, RInt(2)), k1)), u, w, theta)
        k3 == models_f(self, VAdd(x, VScale(RDiv(dt, RInt(2)), k2)), u, w, theta)
        k4 == models_f(self, VAdd(x, VScale(dt, k3)), u, w, theta)
    IN  [x |-> VAdd(x, VScale(RDiv(dt, RInt(6)),
                   VAdd(VAdd(VAdd(k1, VScale(RInt(2), k2)), VScale(RInt(2), k3)), k4))),
         attitude_div_sq |-> ROne]

\* par/models.py DynamicsModel.F
models_F(self, dt, x, u, w, theta) ==
    LET theta1 == IF is_none(theta) THEN get_default_parameter_vector(self) ELSE theta
        w1 == IF is_none(w) THEN VZeros(nw) ELSE w
    IN  models_rk4(self, dt, x, u, w1, theta1)

\* par/dynamics/models.py NonlinearQuadrotorModel._set_model
f_dynamics_NonlinearQuadrotorModel(x, u, w, theta) ==
    LET q == SubSeq(x, 4, 7)
        vB == SubSeq(x, 8, 10)
        wB == SubSeq(x, 11, 13)
        m == theta[1]
        a == SubSeq(theta, 2, 4)
        Ixx == theta[5]
        Iyy == theta[6]
        Izz == theta[7]
        b == SubSeq(theta, 8, 7 + nu)
        r == SubSeq(theta, 8 + nu, 7 + 2 * nu)
        s == SubSeq(theta, 8 + 2 * nu, 7 + 3 * nu)
        g == <<RZero, RZero, RNeg(GRAVITY)>>
        Am == Diag(a)
        Jm == Diag(<<Ixx, Iyy, Izz>>)
        Km == vertcat(MZeros(2, nu), Row([i \in 1..nu |-> ROne]))
        Bm == vertcat(vertcat(Row(s), Row(VNeg(r))),
                      Row(VMul(b, alternating_ones(nu))))
    IN  VAdd(w,
             MatVec(Q(q), vB)
             \o VScale(Rat(1, 2), MatVec(G(q), wB))
             \o VSub(VAdd(MatVec(Transpose(Q(q)), g),
                          VDiv(VSub(MatVec(Km, u), MatVec(Am, vB)), m)),
                     cross(wB, vB))
             \o MatVec(inv(Jm), VSub(MatVec(Bm, u), cross(wB, MatVec(Jm, wB)))))

RMin(a, b) == IF a[1] * b[2] <= b[1] * a[2] THEN a ELSE b
RMax(a, b) == IF a[1] * b[2] >= b[1] * a[2] THEN a ELSE b

\* np.clip(u, lo, hi)
clip(u, lo, hi) == array([i \in 1..Len(u) |-> RMin(RMax(u[i], lo[i]), hi[i])])

\* an input of Python type t with the entries v; the entries of a symbolic
\* input stand for the point at which the resulting expression is read
typed(t, v) == [type |-> t, value |-> v]

\* par/dynamics/models.py DynamicsModel.f without its np.clip
f_unclipped(self, x, u, w, theta) ==
    LET theta1 == IF is_none(theta) THEN self.parameters ELSE theta
        w1 == IF is_none(w) THEN VZeros(nw) ELSE w
    IN  f_dynamics_NonlinearQuadrotorModel(x, u.value, w1, theta1)

\* par/dynamics/models.py DynamicsModel.f: u is clipped when it is an
\* np.ndarray and passed on as it is otherwise
f(self, x, u, w, theta) ==
    LET theta1 == IF is_none(theta) THEN self.parameters ELSE theta
        w1 == IF is_none(w) THEN VZeros(nw) ELSE w
        u1 == IF u.type = "np.ndarray" THEN clip(u.value, self.lbu, self.ubu)
              ELSE u.value
    IN  f_dynamics_NonlinearQuadrotorModel(x, u1, w1, theta1)

\* par/dynamics/models.py DynamicsModel.forward_euler, with f = self.f
forward_euler(self, dt, x, u, w, theta) ==
    [x |-> VAdd(x, VScale(dt, f(self, x, u, w, theta))),
     attitude_div_sq |-> ROne]

\* par/dynamics/models.py DynamicsModel.F_euler
F_euler(self, dt, x, u, w, theta) == forward_euler(self, dt, x, u, w, theta)

\* par/dynamics/models.py DynamicsModel.rk4, with f = self.f
rk4(self, dt, x, u, w, theta) ==
    LET k1 == f(self, x, u, w, theta)
        k2 == f(self, VAdd(x, VScale(RDiv(dt, RInt(2)), k1)), u, w, theta)
        k3 == f(self, VAdd(x, VScale(RDiv(dt, RInt(2)), k2)), u, w, theta)
        k4 == f(self, VAdd(x, VScale(dt, k3)), u, w, theta)
        x_next == VAdd(x, VScale(RDiv(dt, RInt(6)),
                      VAdd(VAdd(VAdd(k1, VScale(RInt(2), k2)), VScale(RInt(2), k3)), k4)))
    IN  [x |-> x_next, attitude_div_sq |-> norm_2_sq(attitude(x_next))]

\* par/dynamics/models.py DynamicsModel.F
F(self, dt, x, u, w, theta) == rk4(self, dt, x, u, w, theta)

----------------------------------------------------------------------------
(* Integration steps: one call of F on a model of either module.           *)

StepParameters ==
    { [m |-> ROne, a |-> Ints(<<0, 0, 0>>),
       Ixx |-> ROne, Iyy |-> ROne, Izz |-> ROne,
       k |-> Ints(<<1, 1, 1, 1>>), c |-> Ints(<<1, 1, 1, 1>>),
       r |-> Ints(<<1, 1, -1, -1>>), s |-> Ints(<<1, -1, -1, 1>>)],
      [m |-> ROne, a |-> Ints(<<1, 1, 1>>),
       Ixx |-> ROne, Iyy |-> RInt(2), Izz |-> RInt(2),
       k |-> Ints(<<1, 1, 1, 1>>), c |-> Ints(<<1, 1, 1, 1>>),
       r |-> Ints(<<1, 1, -1, -1>>), s |-> Ints(<<1, -1, -1, 1>>)] }

\* the parameter array (m, a, Ixx, Iyy, Izz, b, c, d) of par/dynamics/models.py
dynamics_vector(params) ==
    <<params.m>> \o params.a \o <<params.Ixx, params.Iyy, params.Izz>>
        \o params.c \o params.r \o params.s

StepModels ==
    { NonlinearQuadrotorModel(p) : p \in StepParameters }
    \cup { ParameterAffineQuadrotorModel(p) : p \in StepParameters }
    \cup { [type |-> "dynamics.NonlinearQuadrotorModel",
            parameters |-> dynamics_vector(p),
            lbu |-> VZeros(nu), ubu |-> Ints(<<1, 1, 1, 1>>)] : p \in StepParameters }

StepStates ==
    { VZeros(3) \o q \o vB \o wB :
      q \in { Ints(<<1, 0, 0, 0>>), Ints(<<2, 0, 0, 0>>),
              <<Rat(1, 2), Rat(1, 2), Rat(1, 2), Rat(1, 2)>> },
      vB \in { VZeros(3), Ints(<<1, 0, -1>>) },
      wB \in { VZeros(3), Ints(<<2, 0, 0>>), Ints(<<0, 2, -2>>) } }

StepInputs == { VZeros(nu), Ints(<<1, 1, 1, 1>>) }

StepSizes == { RInt(1), RInt(2) }

InitStep ==
    /\ step_model \in StepModels
    /\ step_dt \in StepSizes
    /\ step_x \in StepStates
    /\ step_u \in StepInputs
    /\ step_w = None
    /\ step_theta = None
    /\ step_out = None
    /\ step_u_type = "np.ndarray"
    /\ step_op = "F"
    /\ QuatIdle
    /\ AffIdle
    /\ MpcIdle
    /\ ConfigIdle
    /\ KoopIdle

\* F of par/models.py
ModelsStep ==
    /\ step_out = None
    /\ step_model # None
    /\ step_op = "F"
    /\ step_model.type \in {"NonlinearQuadrotorModel", "ParameterAffineQuadrotorModel"}
    /\ step_out' = models_F(step_model, step_dt, step_x, step_u, step_w, step_theta)
    /\ UNCHANGED <<step_model, step_dt, step_x, step_u, step_w, step_theta,
                   step_u_type, step_op,
                   quat_vars, aff_vars, mpc_vars, cfg_vars, koop_vars>>

\* F of par/dynamics/models.py
DynamicsStep ==
    /\ step_out = None
    /\ step_model # None
    /\ step_op = "F"
    /\ step_model.type = "dynamics.NonlinearQuadrotorModel"
    /\ step_out' = F(step_model, step_dt, step_x, typed(step_u_type, step_u),
                     step_w, step_theta)
    /\ UNCHANGED <<step_model, step_dt, step_x, step_u, step_w, step_theta,
                   step_u_type, step_op,
                   quat_vars, aff_vars, mpc_vars, cfg_vars, koop_vars>>

NextStep == ModelsStep \/ DynamicsStep

SpecStep == InitStep /\ [][NextStep]_vars

\* C4: for every dynamics model, every dt and every state whose attitude block
\* has nonzero norm, one RK4 step through F returns a state whose attitude
\* block has unit norm.
C4_StepAttitudeUnitNorm ==
    (step_out # None /\ norm_2_sq(attitude(step_x)) # RZero) =>
        attitude_norm_sq(step_out) = ROne

\* The renormalizing step of par/dynamics/models.py alone does return a unit
\* attitude block.
DynamicsStepAttitudeUnitNorm ==
    (step_out # None /\ step_model.type = "dynamics.NonlinearQuadrotorModel"
        /\ norm_2_sq(attitude(step_x)) # RZero) =>
        attitude_norm_sq(step_out) = ROne

----------------------------------------------------------------------------
(* Single calls of f, F and F_euler with inputs inside, above and below    *)
(* the input bounds, handed over as np.ndarray, as cs.DM and as cs.SX.     *)

EvalStates ==
    { VZeros(3) \o Ints(<<1, 0, 0, 0>>) \o VZeros(3) \o wB :
      wB \in { VZeros(3), Ints(<<2, 0, 0>>) } }

\* the models of the parameter set with equal inertias
EvalModels ==
    { model \in StepModels :
        \E p \in StepParameters :
            /\ p.Iyy = p.Ixx
            /\ model.parameters
                   = IF model.type = "dynamics.NonlinearQuadrotorModel"
                     THEN dynamics_vector(p) ELSE p }

EvalInputs == { Ints(<<1, 1, 1, 1>>), Ints(<<2, 2, 2, 2>>),
                Ints(<<-1, -1, -1, -1>>) }

EvalTypes == {"np.ndarray", "cs.DM", "cs.SX"}

\* par/models.py has f and F, par/dynamics/models.py f, F and F_euler
EvalOps(model) ==
    IF model.type = "dynamics.NonlinearQuadrotorModel"
    THEN {"f", "F", "F_euler"} ELSE {"f", "F"}

InitEval ==
    /\ step_model \in EvalModels
    /\ step_dt = RInt(1)
    /\ step_x \in EvalStates
    /\ step_u \in EvalInputs
    /\ step_u_type \in EvalTypes
    /\ step_op \in EvalOps(step_model)
    /\ step_w = None
    /\ step_theta = None
    /\ step_out = None
    /\ QuatIdle
    /\ AffIdle
    /\ MpcIdle
    /\ ConfigIdle
    /\ KoopIdle

\* f of par/models.py
ModelsEvalF ==
    /\ step_out = None
    /\ step_model # None
    /\ step_op = "f"
    /\ step_model.type \in {"NonlinearQuadrotorModel", "ParameterAffineQuadrotorModel"}
    /\ step_out' = models_f(step_model, step_x, step_u, step_w, step_theta)
    /\ UNCHANGED <<step_model, step_dt, step_x, step_u, step_w, step_theta,
                   step_u_type, step_op,
                   quat_vars, aff_vars, mpc_vars, cfg_vars, koop_vars>>

\* f of par/dynamics/models.py
DynamicsEvalF ==
    /\ step_out = None
    /\ step_model # None
    /\ step_op = "f"
    /\ step_model.type = "dynamics.NonlinearQuadrotorModel"
    /\ step_out' = f(step_model, step_x, typed(step_u_type, step_u),
                     step_w, step_theta)
    /\ UNCHANGED <<step_model, step_dt, step_x, step_u, step_w, step_theta,
                   step_u_type, step_op,
                   quat_vars, aff_vars, mpc_vars, cfg_vars, koop_vars>>

\* F_euler of par/dynamics/models.py
DynamicsEulerStep ==
    /\ step_out = None
    /\ step_model # None
    /\ step_op = "F_euler"
    /\ step_model.type = "dynamics.NonlinearQuadrotorModel"
    /\ step_out' = F_euler(step_model, step_dt, step_x,
                           typed(step_u_type, step_u), step_w, step_theta)
    /\ UNCHANGED <<step_model, step_dt, step_x, step_u, step_w, step_theta,
                   step_u_type, step_op,
                   quat_vars, aff_vars, mpc_vars, cfg_vars, koop_vars>>

NextEval ==
    \/ ModelsEvalF
    \/ DynamicsEvalF
    \/ ModelsStep
    \/ DynamicsStep
    \/ DynamicsEulerStep

SpecEval == InitEval /\ [][NextEval]_vars

\* the input bounds of a model; a model of par/models.py holds none, and is
\* measured against the bounds of the par/dynamics/models.py models
InputBounds(self) ==
    IF self.type = "dynamics.NonlinearQuadrotorModel"
    THEN [lbu |-> self.lbu, ubu |-> self.ubu]
    ELSE [lbu |-> VZeros(nu), ubu |-> Ints(<<1, 1, 1, 1>>)]

\* f, or the RK4 step F, with the vector field read at exactly the input u
\* in every evaluation
AtInput(op, self, dt, x, u) ==
    IF self.type = "dynamics.NonlinearQuadrotorModel"
    THEN IF op = "f" THEN f_unclipped(self, x, typed("cs.SX", u), None, None)
         ELSE F(self, dt, x, typed("cs.SX", u), None, None)
    ELSE IF op = "f" THEN models_f(self, x, u, None, None)
         ELSE models_F(self, dt, x, u, None, None)

\* C17: f called with a numeric u returns the vector field at u clipped to
\* [lbu, ubu], in every stage of the RK4 step F as well; called with a
\* symbolic u it returns the vector field at u itself.
C17_NumericInputClipped ==
    (step_out # None /\ step_op \in {"f", "F"}) =>
        step_out = AtInput(step_op, step_model, step_dt, step_x,
                       IF step_u_type = "cs.SX" THEN step_u
                       ELSE clip(step_u, InputBounds(step_model).lbu,
                                 InputBounds(step_model).ubu))

\* What holds: f of par/dynamics/models.py clips a u that is an np.ndarray
\* and leaves a symbolic u alone.
DynamicsNdarrayInputClipped ==
    (step_out # None /\ step_op \in {"f", "F"}
        /\ step_model.type = "dynamics.NonlinearQuadrotorModel"
        /\ step_u_type # "cs.DM") =>
        step_out = AtInput(step_op, step_model, step_dt, step_x,
                       IF step_u_type = "cs.SX" THEN step_u
                       ELSE clip(step_u, step_model.lbu, step_model.ubu))

\* C18: the forward-Euler step returns, for every state whose updated
\* attitude block has nonzero norm, a state whose attitude block has unit
\* norm.
C18_EulerAttitudeUnitNorm ==
    (step_out # None /\ step_op = "F_euler"
        /\ norm_2_sq(attitude(step_out.x)) # RZero) =>
        attitude_norm_sq(step_out) = ROne

\* What the forward-Euler step returns: x + dt f(x, u), as it is.
EulerStepNotRenormalized ==
    (step_out # None /\ step_op = "F_euler") =>
        /\ step_out.attitude_div_sq = ROne
        /\ step_out.x = VAdd(step_x, VScale(step_dt,
               f(step_model, step_x, typed(step_u_type, step_u), None, None)))

----------------------------------------------------------------------------
(* Quaternion inputs: every component is a half-integer of magnitude at    *)
(* most QuatMax/2, which includes the unit quaternions (+-1,0,0,0), their  *)
(* permutations and (+-1/2,+-1/2,+-1/2,+-1/2).                             *)

QuatMax == 2

QuatValues == {Rat(n, 2) : n \in -QuatMax..QuatMax}
QuatInputs == {<<w, x, y, z>> : w \in QuatValues, x \in QuatValues,
                                y \in QuatValues, z \in QuatValues}

InitQuat ==
    /\ quat_q \in QuatInputs
    /\ quat_out = <<>>
    /\ quat_pc = "input"
    /\ AffIdle
    /\ StepIdle
    /\ MpcIdle
    /\ ConfigIdle
    /\ KoopIdle

EvalQ ==
    /\ quat_pc = "input"
    /\ quat_out' = Q(quat_q)
    /\ quat_pc' = "done"
    /\ UNCHANGED <<quat_q, aff_vars, step_vars, mpc_vars, cfg_vars, koop_vars>>

NextQuat == EvalQ

SpecQuat == InitQuat /\ [][NextQuat]_vars

\* The textbook quaternion-to-rotation matrix
\* (w^2 - v.v) I + 2 v v^T + 2 w skew(v).
StandardRotation(q) ==
    LET w == q[1]
        v == SubSeq(q, 2, 4)
    IN  MAdd(MAdd(MScale(RSub(RMul(w, w), Dot(v, v)), Eye(3)),
                  MScale(RInt(2), MatMul(Col(v), Row(v)))),
             MScale(RMul(RInt(2), w), skew(v)))

IsUnit(q) == Dot(q, q) = ROne

\* C1: for every quaternion q, Q(q) equals the standard quaternion-to-rotation
\* matrix entry by entry.
C1_QEqualsStandardRotation ==
    quat_pc = "done" => quat_out = StandardRotation(quat_q)

\* C2: for every unit quaternion q, Q(q) is a proper rotation:
\* Q(q)^T Q(q) = I and det Q(q) = 1.
C2_QProperRotation ==
    (quat_pc = "done" /\ IsUnit(quat_q)) =>
        /\ MatMul(Transpose(quat_out), quat_out) = Eye(3)
        /\ Det3(quat_out) = ROne

----------------------------------------------------------------------------
(* par/mpc.py: the multiple-shooting NMPC.  Symbolic and numeric vectors   *)
(* are kept entry by entry as <<name, i>>: entry i of the vector called    *)
(* name, so that two layouts agree exactly when they agree entry by entry. *)

\* the empty dict {} (a dict is a function from its keys)
EmptyDict == <<>>

\* cs.SX.sym(name, n)
sym(name, n) == array([i \in 1..n |-> <<name, i>>])

\* Vector.as_list() of the n-entry vector called name
as_list(name, n) == array([i \in 1..n |-> <<name, i>>])

\* cs.vertcat(*blocks) and the list built by repeated +=
RECURSIVE cs_vertcat(_)
cs_vertcat(blocks) ==
    IF blocks = <<>> THEN <<>>
    ELSE cs_vertcat(SubSeq(blocks, 1, Len(blocks) - 1)) \o blocks[Len(blocks)]

\* n * [0.0]
zeros_list(n) == array([i \in 1..n |-> 0])

\* s[a:b] for 0 <= a, 0 <= b
PySlice(s, a, b) ==
    LET lo == IF a < Len(s) THEN a ELSE Len(s)
        hi == IF b < Len(s) THEN b ELSE Len(s)
    IN  IF hi <= lo THEN <<>> ELSE SubSeq(s, lo + 1, hi)

\* (x - xref)^T Q (x - xref) + (u - uref)^T R (u - uref), term by term
get_stage_cost(x, u, xref, uref) ==
    << [weight |-> "Q", var |-> x, ref |-> xref],
       [weight |-> "R", var |-> u, ref |-> uref] >>

\* a terminal cost weighted by Qf alone: (x - xref)^T Qf (x - xref)
get_terminal_cost_Qf(x, xref) ==
    << [weight |-> "Qf", var |-> x, ref |-> xref] >>

\* (x - xref)^T (Qf - Q) (x - xref)
get_terminal_cost(x, xref) ==
    << [weight |-> "Qf - Q", var |-> x, ref |-> xref] >>

\* _init_solver's loop as single shooting: the state fed to F in the next
\* pass is the propagated xf of this pass, not the new decision block.
RECURSIVE formulate_single_shooting(_, _, _)
formulate_single_shooting(N, model, k) ==
    LET theta == sym(<<"theta">>, model.ntheta)
        z0 == IF model.is_koopman THEN sym(<<"z0">>, model.nz0) ELSE <<>>
        x0 == sym(<<"x", 0>>, model.nx)
    IN  IF k = 0
        THEN [p |-> <<theta, z0>>, d |-> <<x0>>, g |-> <<>>,
              lbg |-> <<>>, ubg |-> <<>>, J |-> <<>>, xk |-> x0]
        ELSE LET prev == formulate_single_shooting(N, model, k - 1)
                 kk == k - 1
                 uk == sym(<<"u", kk>>, model.nu)
                 xf == array([i \in 1..model.nx |->
                           [F |-> [x |-> prev.xk, u |-> uk, theta |-> theta,
                                   z0 |-> z0], i |-> i]])
                 xk == sym(<<"x", kk + 1>>, model.nx)
                 uref_k == sym(<<"uref", kk>>, model.nu)
                 xref_k == sym(<<"xref", kk + 1>>, model.nx)
                 stage == get_stage_cost(xk, uk, xref_k, uref_k)
                 terminal == IF kk = N - 1 THEN get_terminal_cost(xk, xref_k)
                             ELSE <<>>
             IN  [p |-> prev.p \o <<uref_k, xref_k>>,
                  d |-> prev.d \o <<uk, xk>>,
                  g |-> Append(prev.g, array([i \in 1..model.nx |->
                                   [xf |-> xf[i], minus |-> xk[i]]])),
                  lbg |-> prev.lbg \o zeros_list(model.nx),
                  ubg |-> prev.ubg \o zeros_list(model.nx),
                  J |-> prev.J \o stage \o terminal,
                  xk |-> sym(<<"xf", kk>>, model.nx)]

\* The locals of _init_solver after k passes of its loop: the lists p, d, g,
\* lbg, ubg, the running sum J (its terms) and the current state block xk.
RECURSIVE formulate(_, _, _)
formulate(N, model, k) ==
    LET theta == sym(<<"theta">>, model.ntheta)
        z0 == IF model.is_koopman THEN sym(<<"z0">>, model.nz0) ELSE <<>>
        x0 == sym(<<"x", 0>>, model.nx)
    IN  IF k = 0
        THEN [p |-> <<theta, z0>>, d |-> <<x0>>, g |-> <<>>,
              lbg |-> <<>>, ubg |-> <<>>, J |-> <<>>, xk |-> x0]
        ELSE LET prev == formulate(N, model, k - 1)
                 kk == k - 1
                 uk == sym(<<"u", kk>>, model.nu)
                 xf == [i \in 1..model.nx |->
                           [F |-> [x |-> prev.xk, u |-> uk, theta |-> theta,
                                   z0 |-> z0], i |-> i]]
                 xk == sym(<<"x", kk + 1>>, model.nx)
                 uref_k == sym(<<"uref", kk>>, model.nu)
                 xref_k == sym(<<"xref", kk + 1>>, model.nx)
                 stage == get_stage_cost(xk, uk, xref_k, uref_k)
                 terminal == IF kk = N - 1 THEN get_terminal_cost(xk, xref_k)
                             ELSE <<>>
             IN  [p |-> prev.p \o <<uref_k, xref_k>>,
                  d |-> prev.d \o <<uk, xk>>,
                  g |-> Append(prev.g, array([i \in 1..model.nx |->
                                   [xf |-> xf[i], minus |-> xk[i]]])),
                  lbg |-> prev.lbg \o zeros_list(model.nx),
                  ubg |-> prev.ubg \o zeros_list(model.nx),
                  J |-> prev.J \o stage \o terminal,
                  xk |-> xk]

\* _init_solver compiling a parameter vector without the z0 block
init_solver_without_z0(N, model) ==
    LET loc == formulate(N, model, N)
    IN  [nlp_prob |-> [f |-> loc.J, x |-> cs_vertcat(loc.d),
                       p |-> cs_vertcat(<<loc.p[1]>>
                                            \o SubSeq(loc.p, 3, Len(loc.p))),
                       g |-> cs_vertcat(loc.g)],
         lbg |-> loc.lbg, ubg |-> loc.ubg]

\* NMPC._init_solver: the NLP handed to cs.nlpsol and the constraint bounds
init_solver(N, model) ==
    LET loc == formulate(N, model, N)
    IN  [nlp_prob |-> [f |-> loc.J, x |-> cs_vertcat(loc.d),
                       p |-> cs_vertcat(loc.p), g |-> cs_vertcat(loc.g)],
         lbg |-> loc.lbg, ubg |-> loc.ubg]

\* self._solver(x0=..., p=..., ...): ipopt returns its result dict whatever
\* its return status is (nlpsol is built without error_on_fail); the result
\* holds one value per decision variable of the compiled problem.
solver(nlp_prob, call, outcome) ==
    [x |-> array([i \in 1..Len(nlp_prob.x) |->
                      [var |-> nlp_prob.x[i], val |-> outcome.val]])]

\* NMPC.solve after its horizon check, laying the bound vectors out with the
\* state bounds of every step before its input bounds
solve_body_state_bounds_first(self, args, outcome) ==
    LET m == self.model
        lbx == IF is_none(args.lbx) THEN <<"self", "_lbx">> ELSE args.lbx
        ubx == IF is_none(args.ubx) THEN <<"self", "_ubx">> ELSE args.ubx
        lbu == IF is_none(args.lbu) THEN <<"self", "_lbu">> ELSE args.lbu
        ubu == IF is_none(args.ubu) THEN <<"self", "_ubu">> ELSE args.ubu
        theta == IF is_none(args.theta) THEN self.theta ELSE args.theta
        us_guess(k) == IF is_none(args.us_guess) THEN self.us_guess[k + 1]
                       ELSE as_list(<<args.us_guess, k>>, m.nu)
        x == as_list(<<"x">>, m.nx)
        xs_guess(k) == IF is_none(args.xs_guess) THEN x
                       ELSE as_list(<<args.xs_guess, k>>, m.nx)
        p0 == as_list(theta, m.ntheta)
                \o (IF m.is_koopman THEN as_list(<<"x", "zero_order">>, m.nz0)
                    ELSE <<>>)
        type_ok == args.x_type = (IF m.is_koopman THEN "KoopmanLiftedState"
                                  ELSE "State")
        lbd == x \o cs_vertcat([k \in 1..self.N |->
                       as_list(lbx, m.nx) \o as_list(lbu, m.nu)])
        ubd == x \o cs_vertcat([k \in 1..self.N |->
                       as_list(ubx, m.nx) \o as_list(ubu, m.nu)])
        guess == x \o cs_vertcat([k \in 1..self.N |->
                       us_guess(k - 1) \o xs_guess(k - 1)])
        p == p0 \o cs_vertcat([k \in 1..self.N |->
                       as_list(<<"uref", k - 1>>, m.nu)
                           \o as_list(<<"xref", k - 1>>, m.nx)])
        call == [x0 |-> guess, p |-> p, lbx |-> lbd, ubx |-> ubd,
                 lbg |-> self.lbg, ubg |-> self.ubg]
        sol == solver(self.nlp, call, outcome)
                   @@ [solve_time |-> <<"et - st">>]
    IN  IF ~type_ok
        THEN [sol |-> self.sol, raised |-> <<"AssertionError">>, invoked |-> 0,
              call |-> None, status |-> None, ret |-> None]
        ELSE [sol |-> sol, raised |-> None, invoked |-> 1,
              call |-> call, status |-> outcome.status, ret |-> sol]

\* NMPC.solve after its horizon check
solve_body(self, args, outcome) ==
    LET m == self.model
        lbx == IF is_none(args.lbx) THEN <<"self", "_lbx">> ELSE args.lbx
        ubx == IF is_none(args.ubx) THEN <<"self", "_ubx">> ELSE args.ubx
        lbu == IF is_none(args.lbu) THEN <<"self", "_lbu">> ELSE args.lbu
        ubu == IF is_none(args.ubu) THEN <<"self", "_ubu">> ELSE args.ubu
        theta == IF is_none(args.theta) THEN self.theta ELSE args.theta
        us_guess(k) == IF is_none(args.us_guess) THEN self.us_guess[k + 1]
                       ELSE as_list(<<args.us_guess, k>>, m.nu)
        x == as_list(<<"x">>, m.nx)
        xs_guess(k) == IF is_none(args.xs_guess) THEN x
                       ELSE as_list(<<args.xs_guess, k>>, m.nx)
        p0 == as_list(theta, m.ntheta)
                \o (IF m.is_koopman THEN as_list(<<"x", "zero_order">>, m.nz0)
                    ELSE <<>>)
        type_ok == args.x_type = (IF m.is_koopman THEN "KoopmanLiftedState"
                                  ELSE "State")
        lbd == x \o cs_vertcat([k \in 1..self.N |->
                       as_list(lbu, m.nu) \o as_list(lbx, m.nx)])
        ubd == x \o cs_vertcat([k \in 1..self.N |->
                       as_list(ubu, m.nu) \o as_list(ubx, m.nx)])
        guess == x \o cs_vertcat([k \in 1..self.N |->
                       us_guess(k - 1) \o xs_guess(k - 1)])
        p == p0 \o cs_vertcat([k \in 1..self.N |->
                       as_list(<<"uref", k - 1>>, m.nu)
                           \o as_list(<<"xref", k - 1>>, m.nx)])
        call == [x0 |-> guess, p |-> p, lbx |-> lbd, ubx |-> ubd,
                 lbg |-> self.lbg, ubg |-> self.ubg]
        sol == solver(self.nlp, call, outcome)
                   @@ [solve_time |-> <<"et - st">>]
    IN  IF ~type_ok
        THEN [sol |-> self.sol, raised |-> <<"AssertionError">>, invoked |-> 0,
              call |-> None, status |-> None, ret |-> None]
        ELSE [sol |-> sol, raised |-> None, invoked |-> 1,
              call |-> call, status |-> outcome.status, ret |-> sol]

\* NMPC.solve with the horizon check left out
solve_unchecked_horizon(self, args, outcome) == solve_body(self, args, outcome)

\* NMPC.solve: what the call leaves in self._sol, what it raises or returns,
\* how often it invoked the solver and with which arguments
solve(self, args, outcome) ==
    IF ~(args.len_xref = args.len_uref /\ args.len_uref = self.N)
    THEN [sol |-> self.sol, raised |-> <<"AssertionError">>, invoked |-> 0,
          call |-> None, status |-> None, ret |-> None]
    ELSE solve_body(self, args, outcome)

\* NMPC.get_predicted_states reading every block one entry too far
get_predicted_states_shifted(self) ==
    LET m == self.model
    IN  IF "x" \notin DOMAIN self.sol
        THEN [raised |-> <<"KeyError">>, ret |-> None]
        ELSE [raised |-> None,
              ret |-> array([k \in 1..self.N |->
                         PySlice(self.sol.x, k * (m.nx + m.nu) + 1,
                                 k * (m.nx + m.nu) + m.nx + 1)])]

\* NMPC.get_predicted_states
get_predicted_states(self) ==
    LET m == self.model
    IN  IF "x" \notin DOMAIN self.sol
        THEN [raised |-> <<"KeyError">>, ret |-> None]
        ELSE [raised |-> None,
              ret |-> array([k \in 1..self.N |->
                         PySlice(self.sol.x, k * (m.nx + m.nu),
                                 k * (m.nx + m.nu) + m.nx)])]

\* NMPC.get_predicted_inputs
get_predicted_inputs(self) ==
    LET m == self.model
    IN  IF "x" \notin DOMAIN self.sol
        THEN [raised |-> <<"KeyError">>, ret |-> None]
        ELSE [raised |-> None,
              ret |-> array([k \in 1..self.N |->
                         PySlice(self.sol.x, k * m.nx + (k - 1) * m.nu,
                                 k * m.nx + k * m.nu)])]

----------------------------------------------------------------------------
(* NMPC instances of every horizon up to MaxN over models of every block   *)
(* size up to MaxNx and MaxNu, plain and lifted; solve calls with          *)
(* reference lists of the horizon's length, one short and one long, with   *)
(* the optional arguments left out or supplied, under every solver outcome. *)

MaxN == 2
MaxNx == 2
MaxNu == 2

MpcModels ==
    {[nx |-> a, nu |-> b, ntheta |-> 2, is_koopman |-> c,
      nz0 |-> IF c THEN 1 ELSE 0] :
        a \in 1..MaxNx, b \in 1..MaxNu, c \in BOOLEAN}

SolverStatuses == {"Solve_Succeeded", "Infeasible_Problem_Detected",
                   "Maximum_Iterations_Exceeded"}

SolverOutcomes == {[status |-> s, val |-> v] :
                       s \in SolverStatuses, v \in {"a", "b"}}

\* <<len(xref.get()), len(uref.get())>>: both N, one of them off by one, and
\* both equal but not N
HorizonLengths(N) ==
    {<<N, N>>, <<N - 1, N>>, <<N + 1, N>>, <<N, N - 1>>, <<N, N + 1>>,
     <<N + 1, N + 1>>}

SolveArgs(N) ==
    {[x_type |-> t, len_xref |-> h[1], len_uref |-> h[2],
      theta |-> IF o THEN <<"arg", "theta">> ELSE None,
      lbx |-> IF o THEN <<"arg", "lbx">> ELSE None,
      ubx |-> IF o THEN <<"arg", "ubx">> ELSE None,
      lbu |-> IF o THEN <<"arg", "lbu">> ELSE None,
      ubu |-> IF o THEN <<"arg", "ubu">> ELSE None,
      xs_guess |-> IF o THEN <<"arg", "xs_guess">> ELSE None,
      us_guess |-> IF o THEN <<"arg", "us_guess">> ELSE None] :
        t \in {"State", "KoopmanLiftedState"},
        h \in HorizonLengths(N), o \in BOOLEAN}

Self == [N |-> mpc_N, model |-> mpc_model, nlp |-> mpc_nlp,
         lbg |-> mpc_lbg, ubg |-> mpc_ubg, sol |-> mpc_sol,
         theta |-> mpc_theta, us_guess |-> mpc_us_guess]

\* the n-th ModelParameters object handed to the model
parameters_object(n) == <<"parameters", n>>

\* VectorList(N * [Input()]): for every input u_k the entries of a default
\* Input
default_us_guess(N, model) ==
    array([k \in 1..N |-> array([j \in 1..model.nu |->
              [var |-> <<<<"u", k - 1>>, j>>, val |-> "Input()"]])])

\* NMPC.__init__
InitMPC ==
    /\ mpc_N \in 1..MaxN
    /\ mpc_model \in MpcModels
    /\ mpc_nlp = init_solver(mpc_N, mpc_model).nlp_prob
    /\ mpc_lbg = init_solver(mpc_N, mpc_model).lbg
    /\ mpc_ubg = init_solver(mpc_N, mpc_model).ubg
    /\ mpc_sol = EmptyDict
    /\ mpc_status = None
    /\ mpc_op = "__init__"
    /\ mpc_args = None
    /\ mpc_call = None
    /\ mpc_invoked = 0
    /\ mpc_raised = None
    /\ mpc_ret = None
    /\ mdl_parameters = parameters_object(0)
    /\ mdl_f = <<"_f">>
    /\ mpc_theta = mdl_parameters
    /\ mpc_us_guess = default_us_guess(mpc_N, mpc_model)
    /\ QuatIdle
    /\ AffIdle
    /\ StepIdle
    /\ ConfigIdle
    /\ KoopIdle

\* the solve calls that pass solve's assertions
ValidSolveArgs(N, model) ==
    {args \in SolveArgs(N) :
        /\ args.len_xref = N
        /\ args.len_uref = N
        /\ args.x_type = (IF model.is_koopman THEN "KoopmanLiftedState"
                          ELSE "State")}

\* a call of NMPC.solve with arguments out of the set calls
SolveWith(calls) ==
    /\ \E args \in calls, outcome \in SolverOutcomes :
          LET out == solve(Self, args, outcome)
          IN  /\ mpc_sol' = out.sol
              /\ mpc_status' = out.status
              /\ mpc_op' = "solve"
              /\ mpc_args' = args
              /\ mpc_call' = out.call
              /\ mpc_invoked' = out.invoked
              /\ mpc_raised' = out.raised
              /\ mpc_ret' = out.ret
    /\ UNCHANGED <<mpc_N, mpc_model, mpc_nlp, mpc_lbg, mpc_ubg,
                   mpc_theta, mpc_us_guess, mdl_parameters, mdl_f,
                   quat_vars, aff_vars, step_vars, cfg_vars, koop_vars>>

Solve == SolveWith(SolveArgs(mpc_N))

GetPredictedStates ==
    /\ LET out == get_predicted_states(Self)
       IN  /\ mpc_raised' = out.raised
           /\ mpc_ret' = out.ret
    /\ mpc_op' = "get_predicted_states"
    /\ mpc_invoked' = 0
    /\ mpc_status' = None
    /\ mpc_call' = None
    /\ UNCHANGED <<mpc_N, mpc_model, mpc_nlp, mpc_lbg, mpc_ubg, mpc_sol,
                   mpc_args, mpc_theta, mpc_us_guess, mdl_parameters, mdl_f,
                   quat_vars, aff_vars, step_vars, cfg_vars, koop_vars>>

GetPredictedInputs ==
    /\ LET out == get_predicted_inputs(Self)
       IN  /\ mpc_raised' = out.raised
           /\ mpc_ret' = out.ret
    /\ mpc_op' = "get_predicted_inputs"
    /\ mpc_invoked' = 0
    /\ mpc_status' = None
    /\ mpc_call' = None
    /\ UNCHANGED <<mpc_N, mpc_model, mpc_nlp, mpc_lbg, mpc_ubg, mpc_sol,
                   mpc_args, mpc_theta, mpc_us_guess, mdl_parameters, mdl_f,
                   quat_vars, aff_vars, step_vars, cfg_vars, koop_vars>>

NextMPC == Solve \/ GetPredictedStates \/ GetPredictedInputs

SpecMPC == InitMPC /\ [][NextMPC]_vars

----------------------------------------------------------------------------
(* The model's parameters swapped between solves, up to MaxSwaps times.    *)

MaxSwaps == 2

\* model.parameters = new_parameters (DynamicsModel.parameters setter)
SwapParameters ==
    /\ mpc_op # "idle"
    /\ mdl_parameters[2] < MaxSwaps
    /\ mdl_parameters' = parameters_object(mdl_parameters[2] + 1)
    /\ mpc_op' = "parameters.setter"
    /\ mpc_invoked' = 0
    /\ mpc_status' = None
    /\ mpc_call' = None
    /\ mpc_raised' = None
    /\ mpc_ret' = None
    /\ UNCHANGED <<mpc_N, mpc_model, mpc_nlp, mpc_lbg, mpc_ubg, mpc_sol,
                   mpc_args, mpc_theta, mpc_us_guess, mdl_f,
                   quat_vars, aff_vars, step_vars, cfg_vars, koop_vars>>

SolveValid == SolveWith(ValidSolveArgs(mpc_N, mpc_model))

NextSwap == SolveValid \/ SwapParameters

SpecSwap == InitMPC /\ [][NextSwap]_vars

\* the values the solver returned for the n entries of the decision block
\* called name
SolutionBlock(name, n, val) ==
    array([i \in 1..n |-> [var |-> <<name, i>>, val |-> val]])

\* the decision-vector layout [x0, u0, x1, u1, ..., u_{N-1}, xN]
RECURSIVE Interleaved(_, _)
Interleaved(model, k) ==
    IF k = 0 THEN sym(<<"x", 0>>, model.nx)
    ELSE Interleaved(model, k - 1)
             \o sym(<<"u", k - 1>>, model.nu) \o sym(<<"x", k>>, model.nx)

\* C5: after a solve, get_predicted_states and get_predicted_inputs each
\* return exactly N blocks; the j-th state returned (j = 0..N-1) is the
\* solution of the decision block x_{j+1}, the k-th input returned the
\* solution of the block u_k, of the layout [x0, u0, x1, ..., u_{N-1}, xN]
\* built at construction.
C5_GettersInvertLayout ==
    /\ mpc_op # "idle" => mpc_nlp.x = Interleaved(mpc_model, mpc_N)
    /\ (mpc_op = "get_predicted_states" /\ mpc_sol # EmptyDict) =>
          /\ mpc_raised = None
          /\ Len(mpc_ret) = mpc_N
          /\ \A j \in 0..(mpc_N - 1) :
                mpc_ret[j + 1] = SolutionBlock(<<"x", j + 1>>, mpc_model.nx,
                                               mpc_sol.x[1].val)
    /\ (mpc_op = "get_predicted_inputs" /\ mpc_sol # EmptyDict) =>
          /\ mpc_raised = None
          /\ Len(mpc_ret) = mpc_N
          /\ \A k \in 0..(mpc_N - 1) :
                mpc_ret[k + 1] = SolutionBlock(<<"u", k>>, mpc_model.nu,
                                               mpc_sol.x[1].val)

C5_Witness ==
    /\ mpc_op = "get_predicted_states"
    /\ mpc_sol # EmptyDict
    /\ mpc_N = MaxN
    /\ mpc_model.nx = MaxNx
    /\ mpc_model.nu = 1
    /\ Len(mpc_ret) = MaxN

\* C6: a solve call with len(xref) # N or len(uref) # N raises before the
\* solver is invoked and leaves the stored last solution as it was.
C6_HorizonMismatchRaises ==
    [][(mpc_op' = "solve"
          /\ (mpc_args'.len_xref # mpc_N \/ mpc_args'.len_uref # mpc_N)) =>
            /\ mpc_raised' = <<"AssertionError">>
            /\ mpc_invoked' = 0
            /\ mpc_call' = None
            /\ mpc_ret' = None
            /\ mpc_sol' = mpc_sol]_vars

C6_Witness ==
    /\ mpc_op = "solve"
    /\ mpc_args.len_xref = mpc_N
    /\ mpc_args.len_uref = mpc_N + 1
    /\ mpc_raised = <<"AssertionError">>
    /\ mpc_invoked = 0
    /\ mpc_sol # EmptyDict

\* C7: a solve call that gets to the solver invokes it exactly once, and when
\* the solver reports anything but success the call raises SolverFailure
\* instead of storing and returning the result.
C7_SolverFailureSurfaced ==
    (mpc_op = "solve" /\ mpc_invoked > 0) =>
        /\ mpc_invoked = 1
        /\ mpc_status # "Solve_Succeeded" =>
              /\ mpc_raised = <<"SolverFailure">>
              /\ mpc_ret = None

\* The part of C7 the code does have: one solver invocation per call.
SolveInvokesSolverAtMostOnce == mpc_invoked \in {0, 1}

\* the terms of a sum, whatever their order
Terms(J) == {J[n] : n \in 1..Len(J)}

\* sum over k = 0..N-1 of the Q-weighted error of x_{k+1} against xref_{k+1}
\* and the R-weighted error of u_k against uref_k, and the (Qf - Q)-weighted
\* error of x_N against xref_N
ExpectedObjective(model, N) ==
    UNION {{[weight |-> "Q", var |-> sym(<<"x", k + 1>>, model.nx),
             ref |-> sym(<<"xref", k + 1>>, model.nx)],
            [weight |-> "R", var |-> sym(<<"u", k>>, model.nu),
             ref |-> sym(<<"uref", k>>, model.nu)]} : k \in 0..(N - 1)}
      \cup {[weight |-> "Qf - Q", var |-> sym(<<"x", N>>, model.nx),
             ref |-> sym(<<"xref", N>>, model.nx)]}

\* C11: the objective built at construction is the sum over k = 0..N-1 of the
\* stage terms of x_{k+1} and u_k plus the (Qf - Q) term of x_N added once:
\* x_N carries Q and Qf - Q, every earlier predicted state Q only, x0 nothing.
C11_ObjectiveTerms ==
    mpc_op # "idle" =>
        /\ Len(mpc_nlp.f) = 2 * mpc_N + 1
        /\ Terms(mpc_nlp.f) = ExpectedObjective(mpc_model, mpc_N)
        /\ \A t \in Terms(mpc_nlp.f) : t.var # sym(<<"x", 0>>, mpc_model.nx)
        /\ \A k \in 1..mpc_N :
              {t.weight : t \in {tt \in Terms(mpc_nlp.f) :
                                    tt.var = sym(<<"x", k>>, mpc_model.nx)}}
                  = IF k = mpc_N THEN {"Q", "Qf - Q"} ELSE {"Q"}

C11_Witness ==
    /\ mpc_op = "solve"
    /\ mpc_N = MaxN
    /\ Len(mpc_nlp.f) = 2 * MaxN + 1
    /\ mpc_nlp.f[Len(mpc_nlp.f)].weight = "Qf - Q"

\* entry i of F(dt, x_k, u_k, theta[, z0]) - x_{k+1}, x_k and x_{k+1} being
\* decision blocks
ShootingConstraint(model, k, i) ==
    [xf |-> [F |-> [x |-> sym(<<"x", k>>, model.nx),
                    u |-> sym(<<"u", k>>, model.nu),
                    theta |-> sym(<<"theta">>, model.ntheta),
                    z0 |-> IF model.is_koopman THEN sym(<<"z0">>, model.nz0)
                           ELSE <<>>],
             i |-> i],
     minus |-> <<<<"x", k + 1>>, i>>]

ConstraintsAsBuilt ==
    mpc_op # "idle" =>
        /\ Len(mpc_nlp.g) = mpc_N * mpc_model.nx
        /\ \A k \in 0..(mpc_N - 1) : \A i \in 1..mpc_model.nx :
              mpc_nlp.g[k * mpc_model.nx + i]
                  = ShootingConstraint(mpc_model, k, i)
        /\ mpc_lbg = zeros_list(mpc_N * mpc_model.nx)
        /\ mpc_ubg = zeros_list(mpc_N * mpc_model.nx)
        /\ mpc_call # None =>
              /\ mpc_call.lbg = zeros_list(mpc_N * mpc_model.nx)
              /\ mpc_call.ubg = zeros_list(mpc_N * mpc_model.nx)

\* C12: g has N blocks of nx entries, block k being F(dt, x_k, u_k, theta)
\* minus x_{k+1} with x_k the decision block of step k; lbg and ubg hold
\* N*nx zeros each, and no call ever changes them.
C12_MultipleShootingConstraints ==
    /\ []ConstraintsAsBuilt
    /\ [][mpc_lbg' = mpc_lbg /\ mpc_ubg' = mpc_ubg]_vars

C12_Witness ==
    /\ mpc_op = "solve"
    /\ mpc_invoked = 1
    /\ mpc_N = MaxN
    /\ mpc_model.nx = MaxNx
    /\ Len(mpc_nlp.g) = MaxN * MaxNx
    /\ mpc_call.lbg = zeros_list(MaxN * MaxNx)

\* the argument of the last solve call, or the instance's own when left out
Resolved(arg, own) == IF is_none(arg) THEN <<"self", own>> ELSE arg

\* what bounds the decision entry <<name, j>>: the supplied state for the
\* block x0, the input bound for a block u_k, the state bound for x_{k+1}
ExpectedBound(entry, input_bound, state_bound) ==
    IF entry[1] = <<"x", 0>> THEN <<<<"x">>, entry[2]>>
    ELSE IF entry[1][1] = "u" THEN <<input_bound, entry[2]>>
    ELSE <<state_bound, entry[2]>>

\* what the decision entry <<name, j>> is started from: the supplied state
\* for x0, entry j of us_guess.get(k) for u_k, of xs_guess.get(k) for x_{k+1}
ExpectedGuess(entry) ==
    IF entry[1] = <<"x", 0>> THEN <<<<"x">>, entry[2]>>
    ELSE IF entry[1][1] = "u"
         THEN IF is_none(mpc_args.us_guess)
              THEN mpc_us_guess[entry[1][2] + 1][entry[2]]
              ELSE <<<<mpc_args.us_guess, entry[1][2]>>, entry[2]>>
    ELSE IF is_none(mpc_args.xs_guess) THEN <<<<"x">>, entry[2]>>
         ELSE <<<<mpc_args.xs_guess, entry[1][2] - 1>>, entry[2]>>

\* C13: in every solve call that gets to the solver the lower-bound, upper-
\* bound and initial-guess vectors have nx + N (nu + nx) entries in the block
\* order of d; the x0 block of both bound vectors is the supplied state,
\* every u_k block is bounded by lbu and ubu and every x_{k+1} block by lbx
\* and ubx; g holds the N dynamics blocks only, nothing on x0.
C13_BoundsFollowLayout ==
    (mpc_op = "solve" /\ mpc_invoked = 1) =>
        LET d == mpc_nlp.x
            size == mpc_model.nx + mpc_N * (mpc_model.nu + mpc_model.nx)
        IN  /\ Len(d) = size
            /\ Len(mpc_call.lbx) = size
            /\ Len(mpc_call.ubx) = size
            /\ Len(mpc_call.x0) = size
            /\ \A i \in 1..size :
                  /\ mpc_call.lbx[i] = ExpectedBound(d[i],
                        Resolved(mpc_args.lbu, "_lbu"),
                        Resolved(mpc_args.lbx, "_lbx"))
                  /\ mpc_call.ubx[i] = ExpectedBound(d[i],
                        Resolved(mpc_args.ubu, "_ubu"),
                        Resolved(mpc_args.ubx, "_ubx"))
                  /\ mpc_call.x0[i] = ExpectedGuess(d[i])
            /\ \A i \in 1..mpc_model.nx :
                  mpc_call.lbx[i] = mpc_call.ubx[i]
            /\ Len(mpc_nlp.g) = mpc_N * mpc_model.nx
            /\ \A n \in 1..Len(mpc_nlp.g) : mpc_nlp.g[n].minus[1] # <<"x", 0>>

C13_Witness ==
    /\ mpc_op = "solve"
    /\ mpc_invoked = 1
    /\ mpc_N = MaxN
    /\ mpc_model.nx = MaxNx
    /\ mpc_model.nu = 1
    /\ ~is_none(mpc_args.lbu)
    /\ Len(mpc_call.lbx) = MaxNx + MaxN * (1 + MaxNx)

\* the numeric entry solve puts where the compiled problem has the parameter
\* entry <<name, j>>: theta, the zero-order part of x for z0, entry j of
\* uref.get(k) for uref_k and of xref.get(k) for xref_{k+1}
ExpectedParameter(entry) ==
    IF entry[1][1] = "theta"
    THEN <<IF is_none(mpc_args.theta) THEN mpc_theta ELSE mpc_args.theta,
           entry[2]>>
    ELSE IF entry[1][1] = "z0" THEN <<<<"x", "zero_order">>, entry[2]>>
    ELSE IF entry[1][1] = "uref" THEN <<<<"uref", entry[1][2]>>, entry[2]>>
    ELSE <<<<"xref", entry[1][2] - 1>>, entry[2]>>

\* the symbolic parameter vector: theta, z0 for a lifted model, then uref_k
\* and xref_{k+1} for k = 0..N-1
RECURSIVE ParameterLayout(_, _)
ParameterLayout(model, k) ==
    IF k = 0
    THEN sym(<<"theta">>, model.ntheta)
             \o (IF model.is_koopman THEN sym(<<"z0">>, model.nz0) ELSE <<>>)
    ELSE ParameterLayout(model, k - 1)
             \o sym(<<"uref", k - 1>>, model.nu) \o sym(<<"xref", k>>, model.nx)

\* C14: the numeric parameter vector of every solve call that gets to the
\* solver has the length ntheta + nz0 + N (nu + nx) and the block order of
\* the symbolic parameter vector built at construction: theta, z0 for a
\* lifted model only, then uref[k] and xref[k] for k = 0..N-1, xref[k] being
\* the reference of the predicted state x_{k+1} and uref[k] of the input u_k.
C14_ParametersFollowLayout ==
    (mpc_op = "solve" /\ mpc_invoked = 1) =>
        LET p == mpc_nlp.p
            size == mpc_model.ntheta + mpc_model.nz0
                        + mpc_N * (mpc_model.nu + mpc_model.nx)
        IN  /\ p = ParameterLayout(mpc_model, mpc_N)
            /\ Len(p) = size
            /\ Len(mpc_call.p) = size
            /\ \A i \in 1..size : mpc_call.p[i] = ExpectedParameter(p[i])
            /\ \A t \in Terms(mpc_nlp.f) :
                  /\ t.var[1][1][1] = "x" =>
                        /\ t.ref[1][1][1] = "xref"
                        /\ t.ref[1][1][2] = t.var[1][1][2]
                  /\ t.var[1][1][1] = "u" =>
                        /\ t.ref[1][1][1] = "uref"
                        /\ t.ref[1][1][2] = t.var[1][1][2]

C14_Witness ==
    /\ mpc_op = "solve"
    /\ mpc_invoked = 1
    /\ mpc_model.is_koopman
    /\ mpc_N = MaxN
    /\ mpc_model.nu = MaxNu
    /\ Len(mpc_call.p) = mpc_model.ntheta + mpc_model.nz0
                             + MaxN * (MaxNu + mpc_model.nx)

\* the entries of the input blocks u_0..u_{N-1} of a vector laid out like d
InputEntries(v) ==
    UNION {{v[i] : i \in (k * mpc_model.nx + (k - 1) * mpc_model.nu + 1)
                             ..(k * mpc_model.nx + k * mpc_model.nu)} :
           k \in 1..mpc_N}

\* C15: every solve call that gets to the solver leaves the inputs it
\* produced in the stored warm-start guess, and a call without us_guess that
\* follows an earlier solve starts its inputs from the values that solve
\* produced, not from the guess set at construction.
C15_WarmStartFromPreviousSolve ==
    [][(mpc_op' = "solve" /\ mpc_invoked' = 1) =>
          /\ \A k \in 1..mpc_N : \A j \in 1..mpc_model.nu :
                mpc_us_guess'[k][j].val = mpc_sol'.x[1].val
          /\ (mpc_sol # EmptyDict /\ is_none(mpc_args'.us_guess)) =>
                \A e \in InputEntries(mpc_call'.x0) : e.val = mpc_sol.x[1].val
      ]_vars

\* What the code does instead: the stored guess stays the one of construction.
UsGuessNeverUpdated ==
    [][mpc_us_guess' = mpc_us_guess]_vars

ThetaOfTheCall ==
    (mpc_op = "solve" /\ mpc_invoked = 1 /\ is_none(mpc_args.theta)) =>
        SubSeq(mpc_call.p, 1, mpc_model.ntheta)
            = as_list(mdl_parameters, mpc_model.ntheta)

\* C16: a solve called without theta passes to the solver the parameters the
\* model holds at the time of the call, whatever swaps came before; and no
\* step, a swap included, changes the model's compiled vector field.
C16_SolveUsesCurrentParameters ==
    /\ []ThetaOfTheCall
    /\ [][mdl_f' = mdl_f]_vars

\* What the code does: the parameters read are those of construction, and
\* the compiled vector field is indeed left alone.
SolveUsesConstructionParameters ==
    /\ [](mpc_op # "idle" => mpc_theta = parameters_object(0))
    /\ [][mdl_f' = mdl_f]_vars

----------------------------------------------------------------------------
(* par/config_utils.py.  A str is its sequence of characters, a dict its   *)
(* sequence of items in insertion order; a call ends by returning a value, *)
(* by returning None, or by raising.                                       *)

Str(chars) == [type |-> "str", chars |-> chars]
Dict(items) == [type |-> "dict", items |-> items]

Return(v) == [kind |-> "return", value |-> v]
ReturnNone == [kind |-> "return None", value |-> "None"]
Raise(e) == [kind |-> "raise", value |-> e]

\* str.find: the lowest index at which sub occurs in s, -1 if it does not
find(s, sub) ==
    LET hits == {i \in 0..(Len(s) - Len(sub)) :
                    SubSeq(s, i + 1, i + Len(sub)) = sub}
    IN  IF hits = {} THEN -1
        ELSE CHOOSE i \in hits : \A j \in hits : i <= j

\* dims summed over the items, in order
RECURSIVE sum_dimensions(_)
sum_dimensions(items) ==
    IF items = <<>> THEN 0
    ELSE sum_dimensions(SubSeq(items, 1, Len(items) - 1))
             + items[Len(items)].dimensions

\* config.items() exists on a dict only
get_sub_config(id, config) ==
    IF config.type # "dict" THEN Raise("AttributeError")
    ELSE Return(Dict(SelectSeq(config.items,
                               LAMBDA it : find(it.key, id.chars) # -1)))

\* passes its arguments to get_sub_config in the order (config, id)
get_dimensions(id, config) ==
    LET sub_config == get_sub_config(config, id)
    IN  IF sub_config.kind = "raise" THEN sub_config
        ELSE Return(sum_dimensions(sub_config.value.items))

get_all_dimensions(config) == Return(sum_dimensions(config.items))

\* the loop of get_start_or_end_index from the n-th key on, with index i
RECURSIVE index_loop(_, _, _, _, _)
index_loop(id, config, is_start, n, i) ==
    IF n > Len(config.items) THEN ReturnNone
    ELSE LET config_id == config.items[n].key
             dims == config.items[n].dimensions
             i1 == IF ~is_start THEN i + dims ELSE i
         IN  IF config_id = id.chars THEN Return(i1)
             ELSE IF config_id = config.items[Len(config.items)].key
                  THEN Raise("IndexError")
             ELSE index_loop(id, config, is_start, n + 1,
                             IF is_start THEN i1 + dims ELSE i1)

\* get_start_or_end_index answering the stop index whatever is_start is
get_stop_index_only(id, config, is_start) == index_loop(id, config, FALSE, 1, 0)

get_start_or_end_index(id, config, is_start) ==
    index_loop(id, config, is_start, 1, 0)

get_start_index(id, config) == get_start_or_end_index(id, config, TRUE)

get_stop_index(id, config) == get_start_or_end_index(id, config, FALSE)

\* vector[start:stop], a None bound standing for that end of the vector
get_subvector(id, vec, config) ==
    LET start == get_start_index(id, config)
        stop == get_stop_index(id, config)
    IN  IF start.kind = "raise" THEN start
        ELSE IF stop.kind = "raise" THEN stop
        ELSE Return(PySlice(vec,
                            IF start.kind = "return" THEN start.value ELSE 0,
                            IF stop.kind = "return" THEN stop.value
                            ELSE Len(vec)))

----------------------------------------------------------------------------
(* Configurations of up to MaxBlocks blocks of 1..MaxDim entries each,     *)
(* the empty configuration included, under names of which one contains     *)
(* the others; lookups by each of these names and by a name that is no key. *)

MaxBlocks == 3
MaxDim == 2

BlockNames == {<<"p">>, <<"q">>, <<"p", "q">>, <<"r">>}
LookupNames == BlockNames \cup {<<"z">>}

ConfigItems ==
    UNION {{items \in [1..n -> [key : BlockNames, dimensions : 1..MaxDim]] :
               \A i, j \in 1..n : i # j => items[i].key # items[j].key} :
           n \in 0..MaxBlocks}

Keys(config) == {config.items[n].key : n \in 1..Len(config.items)}

InitConfig ==
    /\ \E items \in ConfigItems : cfg_config = Dict(array(items))
    /\ \E name \in LookupNames : cfg_id = Str(name)
    /\ cfg_vector = array([i \in 1..sum_dimensions(cfg_config.items) |-> <<"v", i>>])
    /\ cfg_op = "input"
    /\ cfg_out = None
    /\ QuatIdle
    /\ AffIdle
    /\ StepIdle
    /\ MpcIdle
    /\ KoopIdle

GetStartIndex ==
    /\ cfg_op' = "get_start_index"
    /\ cfg_out' = get_start_index(cfg_id, cfg_config)
    /\ UNCHANGED <<cfg_config, cfg_id, cfg_vector,
                   quat_vars, aff_vars, step_vars, mpc_vars, koop_vars>>

GetStopIndex ==
    /\ cfg_op' = "get_stop_index"
    /\ cfg_out' = get_stop_index(cfg_id, cfg_config)
    /\ UNCHANGED <<cfg_config, cfg_id, cfg_vector,
                   quat_vars, aff_vars, step_vars, mpc_vars, koop_vars>>

GetSubvector ==
    /\ cfg_op' = "get_subvector"
    /\ cfg_out' = get_subvector(cfg_id, cfg_vector, cfg_config)
    /\ UNCHANGED <<cfg_config, cfg_id, cfg_vector,
                   quat_vars, aff_vars, step_vars, mpc_vars, koop_vars>>

GetDimensions ==
    /\ cfg_op' = "get_dimensions"
    /\ cfg_out' = get_dimensions(cfg_id, cfg_config)
    /\ UNCHANGED <<cfg_config, cfg_id, cfg_vector,
                   quat_vars, aff_vars, step_vars, mpc_vars, koop_vars>>

GetAllDimensions ==
    /\ cfg_op' = "get_all_dimensions"
    /\ cfg_out' = get_all_dimensions(cfg_config)
    /\ UNCHANGED <<cfg_config, cfg_id, cfg_vector,
                   quat_vars, aff_vars, step_vars, mpc_vars, koop_vars>>

NextConfig ==
    \/ GetStartIndex
    \/ GetStopIndex
    \/ GetSubvector
    \/ GetDimensions
    \/ GetAllDimensions

SpecConfig == InitConfig /\ [][NextConfig]_vars

\* the position (1-based) of the key name in the configuration
Position(config, name) ==
    CHOOSE n \in 1..Len(config.items) : config.items[n].key = name

\* get_subvector of every key in configuration order, concatenated
RECURSIVE Reassembled(_, _, _)
Reassembled(config, vec, n) ==
    IF n = 0 THEN <<>>
    ELSE Reassembled(config, vec, n - 1)
             \o get_subvector(Str(config.items[n].key), vec, config).value

\* C8: for a name that is a key of the configuration, get_start_index returns
\* the summed dimensions of the blocks before it and get_stop_index that sum
\* plus its own dimensions (so the first block starts at 0, every block
\* starts where the previous one stops and the last stops at the total);
\* get_subvector returns exactly those entries, and the subvectors of all
\* keys concatenated in configuration order are the vector itself.
C8_BlocksContiguous ==
    (cfg_op # "idle" /\ cfg_id.chars \in Keys(cfg_config)) =>
        LET n == Position(cfg_config, cfg_id.chars)
            before == sum_dimensions(SubSeq(cfg_config.items, 1, n - 1))
            upto == sum_dimensions(SubSeq(cfg_config.items, 1, n))
        IN  /\ cfg_op = "get_start_index" => cfg_out = Return(before)
            /\ cfg_op = "get_stop_index" => cfg_out = Return(upto)
            /\ cfg_op = "get_subvector" =>
                  /\ cfg_out = Return(SubSeq(cfg_vector, before + 1, upto))
                  /\ Reassembled(cfg_config, cfg_vector,
                                 Len(cfg_config.items)) = cfg_vector

C8_Witness ==
    /\ cfg_op = "get_subvector"
    /\ Len(cfg_config.items) >= 3
    /\ cfg_id.chars = cfg_config.items[2].key
    /\ cfg_out.kind = "return"
    /\ Len(cfg_out.value) >= 2

\* C9: get_start_index and get_stop_index called with a name that is no key
\* of the configuration raise, whatever the configuration, the empty one
\* included.
C9_UnknownNameRaises ==
    (cfg_op \in {"get_start_index", "get_stop_index"}
        /\ cfg_id.chars \notin Keys(cfg_config)) =>
        cfg_out.kind = "raise"

\* On a configuration that has at least one block an unknown name does raise.
UnknownNameRaisesOnNonEmpty ==
    (cfg_op \in {"get_start_index", "get_stop_index"}
        /\ cfg_id.chars \notin Keys(cfg_config)
        /\ cfg_config.items # <<>>) =>
        cfg_out = Raise("IndexError")

\* C10: get_all_dimensions returns the summed dimensions of all blocks, and
\* get_dimensions returns the summed dimensions of the blocks whose name
\* contains id.
C10_DimensionsSummed ==
    /\ cfg_op = "get_all_dimensions" =>
          cfg_out = Return(sum_dimensions(cfg_config.items))
    /\ cfg_op = "get_dimensions" =>
          /\ cfg_out.kind = "return"
          /\ cfg_out.value = sum_dimensions(SelectSeq(cfg_config.items,
                                 LAMBDA it : find(it.key, cfg_id.chars) # -1))

\* The half of C10 the code does satisfy.
AllDimensionsSummed ==
    cfg_op = "get_all_dimensions" =>
        cfg_out = Return(sum_dimensions(cfg_config.items))

----------------------------------------------------------------------------
(* par/koopman/dynamics.py: the attitude input matrix of the lifted model. *)
(* The blocks Hs[j] are 3-row matrices; a call returns its matrix and      *)
(* leaves the list it was handed in the state its loop put it in.          *)

\* get_input_block(sub_blocks, i), i counted from 0: row i of every block
get_input_block(sub_blocks, i) ==
    array([j \in 1..Len(sub_blocks) |-> sub_blocks[j][i + 1]])

\* the B of get_attitude_input_matrix built from the list blocks
stack_input_blocks(blocks) ==
    vertcat(vertcat(vertcat(<<>>, get_input_block(blocks, 0)),
                    get_input_block(blocks, 1)),
            get_input_block(blocks, 2))

\* get_attitude_input_matrix(Hs, J): the matrix returned and the list Hs as
\* the call leaves it (Hs[i] = J_inv @ Hs[i] assigns into the caller's list)
get_attitude_input_matrix(Hs, J) ==
    LET J_inv == inv(J)
        scaled == array([i \in 1..Len(Hs) |-> MatMul(J_inv, Hs[i])])
    IN  [B |-> stack_input_blocks(scaled), Hs |-> scaled]

----------------------------------------------------------------------------
(* Lists of up to MaxOrder blocks, inertias with and without unit entries, *)
(* and up to MaxCalls calls with the same list.                            *)

MaxOrder == 2
MaxCalls == 3

KoopBlocks ==
    { <<Ints(<<1, 0>>), Ints(<<0, 2>>), Ints(<<-1, 1>>)>>,
      <<Ints(<<2, 2>>), Ints(<<0, 0>>), Ints(<<4, -2>>)>>,
      <<Ints(<<0, 1>>), Ints(<<1, 0>>), Ints(<<2, 4>>)>> }

KoopInertias == { Diag(Ints(<<1, 1, 1>>)), Diag(Ints(<<2, 1, 1>>)),
                  Diag(Ints(<<1, 2, 4>>)) }

InitKoop ==
    /\ \E n \in 1..MaxOrder : \E blocks \in [1..n -> KoopBlocks] :
          koop_Hs = array(blocks)
    /\ koop_J \in KoopInertias
    /\ koop_Hs0 = koop_Hs
    /\ koop_B = None
    /\ koop_calls = 0
    /\ QuatIdle
    /\ AffIdle
    /\ StepIdle
    /\ MpcIdle
    /\ ConfigIdle

\* B = get_attitude_input_matrix(Hs, J), again with the same list Hs
GetAttitudeInputMatrix ==
    /\ koop_Hs # None
    /\ koop_calls < MaxCalls
    /\ LET out == get_attitude_input_matrix(koop_Hs, koop_J)
       IN  /\ koop_B' = out.B
           /\ koop_Hs' = out.Hs
    /\ koop_calls' = koop_calls + 1
    /\ UNCHANGED <<koop_J, koop_Hs0,
                   quat_vars, aff_vars, step_vars, mpc_vars, cfg_vars>>

NextKoop == GetAttitudeInputMatrix

SpecKoop == InitKoop /\ [][NextKoop]_vars

\* the matrix of 3 len(Hs) rows whose row i len(Hs) + j is row i of
\* inverse(J) @ Hs[j]
ScaledOnce(Hs, J) ==
    array([n \in 1..(3 * Len(Hs)) |->
        MatMul(inv(J), Hs[((n - 1) % Len(Hs)) + 1])[((n - 1) \div Len(Hs)) + 1]])

BlocksScaledOnce ==
    koop_B # None => koop_B = ScaledOnce(koop_Hs0, koop_J)

\* C19: a call leaves the caller's list Hs as it was, so every call with the
\* same Hs and J returns the same matrix B: 3 len(Hs) rows, row i len(Hs) + j
\* being row i of inverse(J) @ Hs[j], every block scaled by the inverse
\* inertia once.
C19_InputMatrixLeavesHs ==
    /\ []BlocksScaledOnce
    /\ [][koop_Hs' = koop_Hs]_vars

\* What holds: the first call with a list returns the matrix scaled once.
FirstCallScaledOnce ==
    koop_calls = 1 =>
        /\ koop_B = ScaledOnce(koop_Hs0, koop_J)
        /\ Len(koop_B) = 3 * Len(koop_Hs0)

====
